---- MODULE Spec2Model ----
(***************************************************************************)
(* Model of api/index.py: the GET /api/smart-scraper handler `scrape`,     *)
(* the result normalizer `preprocess_result`, the `Project`/`Projects`     *)
(* schema and the pooled extraction call.                                   *)
(*                                                                          *)
(* Python values are tagged records.  A str is a sequence of symbols (one   *)
(* symbol stands for one character or one unbroken word), so that           *)
(* str.split, json.dumps and json.loads are computed, not assumed.          *)
(* A dict is its insertion-ordered sequence of <<key, value>> pairs.        *)
(***************************************************************************)
EXTENDS Integers, Sequences, FiniteSets, TLC

\* Bounds of the explored inputs.
MaxUrlLen == 3
MaxProjects == 2

----------------------------------------------------------------------------
\* Python values

PyNone == [t |-> "none"]
Str(s) == [t |-> "str", s |-> s]
List(l) == [t |-> "list", l |-> l]
Dict(d) == [t |-> "dict", d |-> d]

IsStr(v) == v.t = "str"
IsList(v) == v.t = "list"
IsDict(v) == v.t = "dict"

Range(f) == {f[i] : i \in DOMAIN f}

\* A word as a one-symbol string.
W(a) == Str(<<a>>)

HasKey(d, k) == \E i \in DOMAIN d.d : d.d[i][1] = k

\* dict.get(k, default)
Get(d, k, default) ==
    IF HasKey(d, k)
    THEN d.d[CHOOSE i \in DOMAIN d.d : d.d[i][1] = k][2]
    ELSE default

Keys(d) == [i \in DOMAIN d.d |-> d.d[i][1]]

\* Outcome of a computation: a value, or a raised exception.
Ok(v) == [ok |-> TRUE, v |-> v]
Raise(type, msg) == [ok |-> FALSE, type |-> type, msg |-> msg]

----------------------------------------------------------------------------
\* str.split(",")  (api/index.py line 103)

RECURSIVE SplitFrom(_, _)
SplitFrom(s, cur) ==
    IF s = <<>> THEN <<cur>>
    ELSE IF Head(s) = "," THEN <<cur>> \o SplitFrom(Tail(s), <<>>)
    ELSE SplitFrom(Tail(s), Append(cur, Head(s)))

Split(s) == SplitFrom(s, <<>>)

----------------------------------------------------------------------------
\* json.dumps / json.loads on the value domain (null, strings, arrays,
\* objects).  Strings of the domain hold no quote or backslash, so no
\* escaping occurs.

RECURSIVE Encode(_), EncodeItems(_), EncodePairs(_)
Encode(v) ==
    CASE v.t = "none" -> <<"null">>
      [] v.t = "str"  -> <<"\"">> \o v.s \o <<"\"">>
      [] v.t = "list" -> <<"[">> \o EncodeItems(v.l) \o <<"]">>
      [] v.t = "dict" -> <<"{">> \o EncodePairs(v.d) \o <<"}">>

EncodeItems(l) ==
    IF l = <<>> THEN <<>>
    ELSE IF Len(l) = 1 THEN Encode(l[1])
    ELSE Encode(l[1]) \o <<",", " ">> \o EncodeItems(Tail(l))

EncodePairs(d) ==
    IF d = <<>> THEN <<>>
    ELSE LET one == <<"\"">> \o d[1][1] \o <<"\"", ":", " ">> \o Encode(d[1][2])
         IN IF Len(d) = 1 THEN one
            ELSE one \o <<",", " ">> \o EncodePairs(Tail(d))

Fail == [ok |-> FALSE]
Parsed(v, rest) == [ok |-> TRUE, v |-> v, rest |-> rest]

RECURSIVE SkipWs(_)
SkipWs(s) == IF s # <<>> /\ Head(s) = " " THEN SkipWs(Tail(s)) ELSE s

\* The text after an opening quote, up to the closing quote.
RECURSIVE ParseString(_, _)
ParseString(s, acc) ==
    IF s = <<>> THEN Fail
    ELSE IF Head(s) = "\"" THEN Parsed(acc, Tail(s))
    ELSE ParseString(Tail(s), Append(acc, Head(s)))

\* d[k] = v on an insertion-ordered dict
SetItem(d, k, v) ==
    IF \E i \in DOMAIN d : d[i][1] = k
    THEN [i \in DOMAIN d |-> IF d[i][1] = k THEN <<k, v>> ELSE d[i]]
    ELSE Append(d, <<k, v>>)

RECURSIVE ParseValue(_), ParseElems(_, _), ParseMembers(_, _)
ParseValue(s0) ==
    LET s == SkipWs(s0) IN
    IF s = <<>> THEN Fail
    ELSE CASE Head(s) = "null" -> Parsed(PyNone, Tail(s))
           [] Head(s) = "\"" ->
                LET r == ParseString(Tail(s), <<>>)
                IN IF r.ok THEN Parsed(Str(r.v), r.rest) ELSE Fail
           [] Head(s) = "[" ->
                LET t == SkipWs(Tail(s))
                IN IF t # <<>> /\ Head(t) = "]"
                   THEN Parsed(List(<<>>), Tail(t))
                   ELSE ParseElems(t, <<>>)
           [] Head(s) = "{" ->
                LET t == SkipWs(Tail(s))
                IN IF t # <<>> /\ Head(t) = "}"
                   THEN Parsed(Dict(<<>>), Tail(t))
                   ELSE ParseMembers(t, <<>>)
           [] OTHER -> Fail

ParseElems(s, acc) ==
    LET r == ParseValue(s) IN
    IF ~r.ok THEN Fail
    ELSE LET t == SkipWs(r.rest) IN
         IF t = <<>> THEN Fail
         ELSE IF Head(t) = "," THEN ParseElems(Tail(t), Append(acc, r.v))
         ELSE IF Head(t) = "]" THEN Parsed(List(Append(acc, r.v)), Tail(t))
         ELSE Fail

ParseMembers(s0, acc) ==
    LET s == SkipWs(s0) IN
    IF s = <<>> \/ Head(s) # "\"" THEN Fail
    ELSE LET k == ParseString(Tail(s), <<>>) IN
         IF ~k.ok THEN Fail
         ELSE LET c == SkipWs(k.rest) IN
              IF c = <<>> \/ Head(c) # ":" THEN Fail
              ELSE LET r == ParseValue(Tail(c)) IN
                   IF ~r.ok THEN Fail
                   ELSE LET t == SkipWs(r.rest)
                            d == SetItem(acc, k.v, r.v)
                        IN IF t = <<>> THEN Fail
                           ELSE IF Head(t) = "," THEN ParseMembers(Tail(t), d)
                           ELSE IF Head(t) = "}" THEN Parsed(Dict(d), Tail(t))
                           ELSE Fail

\* json.loads(text)  (api/index.py line 149)
JsonLoads(text) ==
    LET r == ParseValue(text) IN
    IF r.ok /\ SkipWs(r.rest) = <<>>
    THEN Ok(r.v)
    ELSE Raise("JSONDecodeError", <<"Expecting value">>)

----------------------------------------------------------------------------
\* The Project schema (api/index.py lines 54-65)

K(a) == <<a>>

Fields == << K("title"), K("description"), K("date"), K("author"),
             K("content"), K("tags"), K("url") >>

OptionalFields == {K("date"), K("author")}
ListFields == {K("tags")}

\* Does value v satisfy the declared type of field f?
FieldOk(f, v) ==
    IF f \in ListFields THEN IsList(v) /\ \A i \in DOMAIN v.l : IsStr(v.l[i])
    ELSE IF f \in OptionalFields THEN IsStr(v) \/ v = PyNone
    ELSE IsStr(v)

\* Project(**p): p holds the seven keys after normalization.
ProjectOk(p) ==
    /\ IsDict(p)
    /\ \A i \in DOMAIN Fields :
          HasKey(p, Fields[i]) /\ FieldOk(Fields[i], Get(p, Fields[i], PyNone))

\* Projects(**preprocessed_result) followed by .dict()  (lines 155, 159)
ValidateProjects(pre) ==
    LET ps == Get(pre, K("projects"), PyNone) IN
    IF IsList(ps) /\ \A i \in DOMAIN ps.l : ProjectOk(ps.l[i])
    THEN Ok(Dict(<< <<K("projects"),
                      List([i \in DOMAIN ps.l |->
                              Dict([j \in DOMAIN Fields |->
                                      <<Fields[j], Get(ps.l[i], Fields[j], PyNone)>>])])>> >>))
    ELSE Raise("ValidationError", <<"validation error for Projects">>)

----------------------------------------------------------------------------
\* preprocess_result (api/index.py lines 68-81)

\* The default passed to project.get for field f.
DefaultNone(f) == PyNone

Default(f) == IF f \in ListFields THEN List(<<>>) ELSE Str(<<>>)

\* The record built at lines 71-79.
PreprocessProject(project) ==
    Dict([i \in DOMAIN Fields |->
            <<Fields[i], Get(project, Fields[i], Default(Fields[i]))>>])

\* result['projects']
Subscript(result, k) ==
    IF IsDict(result)
    THEN IF HasKey(result, k) THEN Ok(Get(result, k, PyNone))
         ELSE Raise("KeyError", <<"'">> \o k \o <<"'">>)
    ELSE Raise("TypeError", <<"indices must be integers or object is not subscriptable">>)

\* The items a for loop draws from v.
Iter(v) ==
    CASE v.t = "list" -> Ok(v.l)
      [] v.t = "str"  -> Ok([i \in DOMAIN v.s |-> Str(<<v.s[i]>>)])
      [] v.t = "dict" -> Ok([i \in DOMAIN v.d |-> Str(v.d[i][1])])
      [] OTHER        -> Raise("TypeError", <<"object is not iterable">>)

\* preprocess_result(result, urls): `out` is the return value or the
\* exception, `result` is the argument object as the call leaves it.
PreprocessInPlace(result, urls) ==
    LET sub == Subscript(result, K("projects"))
        it == IF sub.ok THEN Iter(sub.v) ELSE sub
        filled == IF IsDict(result) /\ it.ok /\ IsList(sub.v)
                  THEN Dict([i \in DOMAIN result.d |->
                          IF result.d[i][1] = K("projects")
                          THEN <<K("projects"),
                                 List([j \in DOMAIN it.v |->
                                    IF IsDict(it.v[j]) THEN PreprocessProject(it.v[j])
                                    ELSE it.v[j]])>>
                          ELSE result.d[i]])
                  ELSE result
    IN [result |-> filled,
        out |-> IF ~it.ok THEN it
                ELSE IF \E j \in DOMAIN it.v : ~IsDict(it.v[j])
                THEN Raise("AttributeError", <<"object has no attribute 'get'">>)
                ELSE Ok(filled)]

preprocess_result(result, urls) ==
    LET sub == Subscript(result, K("projects"))
        it == IF sub.ok THEN Iter(sub.v) ELSE sub
    IN [result |-> result,
        out |-> IF ~it.ok THEN it
                ELSE IF \E j \in DOMAIN it.v : ~IsDict(it.v[j])
                THEN Raise("AttributeError", <<"object has no attribute 'get'">>)
                ELSE Ok(Dict(<< <<K("projects"),
                                  List([j \in DOMAIN it.v |->
                                          PreprocessProject(it.v[j])])>> >>))]

----------------------------------------------------------------------------
\* The responses of scrape (api/index.py lines 105, 159, 162)

Response(status, body) == [status |-> status, body |-> body]
NoResponse == [status |-> 0, body |-> PyNone]

BadRequest == Response(400, Dict(<< <<K("detail"), W("No URLs provided")>> >>))

\* JSONResponse(content={"error": str(e)}, status_code=500)
ErrorAsEmptyPayload(e) == Response(200, Dict(<< <<K("projects"), List(<<>>)>> >>))

ErrorResponse(e) == Response(500, Dict(<< <<K("error"), Str(e.msg)>> >>))

\* An exception that leaves the handler is answered by the server itself.
Uncaught == Response(500, W("Internal Server Error"))

\* except Exception  (line 160)
ExceptionTypes == {"JSONDecodeError", "KeyError", "TypeError", "AttributeError",
                   "ValidationError", "ProxyException"}

CatchesValueErrors(e) == e.type \in {"JSONDecodeError", "ValidationError", "ProxyException"}

Catches(e) == e.type \in ExceptionTypes

HandleException(e) == IF Catches(e) THEN ErrorResponse(e) ELSE Uncaught

\* isinstance(result, str) guard of json.loads  (lines 148-149)
ParseAlways(result) == TRUE

NeedsParse(result) == IsStr(result)

\* Lines 142-159 on the first element of the gathered results.  `parses`
\* counts the json.loads calls, `input` is the object handed to
\* preprocess_result (None when it was not reached), `after` that object
\* once the call is over, `pre` what the call returned.
TryBody(raw, urls) ==
    LET doParse == NeedsParse(raw)
        loaded == IF doParse
                  THEN (IF IsStr(raw) THEN JsonLoads(raw.s)
                        ELSE Raise("TypeError", <<"the JSON object must be str">>))
                  ELSE Ok(raw)
        n == IF doParse THEN 1 ELSE 0
    IN IF ~loaded.ok
       THEN [resp |-> HandleException(loaded), parses |-> n,
             input |-> PyNone, after |-> PyNone, pre |-> PyNone]
       ELSE LET call == preprocess_result(loaded.v, urls)
                val == IF call.out.ok THEN ValidateProjects(call.out.v) ELSE call.out
            IN [resp |-> IF val.ok THEN Response(200, val.v) ELSE HandleException(val),
                parses |-> n,
                input |-> loaded.v,
                after |-> call.result,
                pre |-> IF call.out.ok THEN call.out.v ELSE PyNone]

NoTrace == [resp |-> NoResponse, parses |-> 0, input |-> PyNone,
            after |-> PyNone, pre |-> PyNone]

----------------------------------------------------------------------------
\* Inputs: query strings and what the extraction graph may hand back.

UrlChars == {"u", ","}

Queries == UNION {[1..n -> UrlChars] : n \in 0..MaxUrlLen}

FewQueries == {q \in Queries : Len(q) <= 1}

\* A sample value of the declared type of field f.
FieldVal(f) == IF f \in ListFields THEN List(<<W("t")>>) ELSE W("x")

\* The project record holding exactly the fields whose index is in S.
ProjectOf(S) ==
    Dict([i \in 1..Cardinality(S) |->
            LET j == CHOOSE j \in S : Cardinality({k \in S : k < j}) = i - 1
            IN <<Fields[j], FieldVal(Fields[j])>>])

FullProject == ProjectOf(DOMAIN Fields)

\* A record with null optional fields, an empty tag list and a foreign key.
SparseProject ==
    Dict(<< <<K("id"), W("7")>>, <<K("date"), PyNone>>, <<K("author"), PyNone>>,
            <<K("tags"), List(<<>>)>>, <<K("title"), W("x")>> >>)

\* An optional field present and null.
NullDateProject == Dict(<< <<K("title"), W("x")>>, <<K("date"), PyNone>> >>)

AnyProjects == {ProjectOf(S) : S \in SUBSET (DOMAIN Fields)}
MoreProjects == {FullProject, ProjectOf({}), ProjectOf({3, 6})}

MoreSeqs == UNION {[1..n -> MoreProjects] : n \in 0..(MaxProjects - 1)}

WithProjects(v) == Dict(<< <<K("projects"), v>> >>)

\* {"projects": [p1..pn]}, each pi a subset of the seven keys, typed.
WellFormed ==
    {WithProjects(List(<<>>))}
    \cup {WithProjects(List(<<p>> \o t)) : p \in AnyProjects, t \in MoreSeqs}
    \cup {WithProjects(List(<<NullDateProject>>))}

\* Well-shaped results with keys outside the schema.
Foreign ==
    {WithProjects(List(<<SparseProject>>)),
     WithProjects(List(<<FullProject, SparseProject>>)),
     Dict(<< <<K("count"), W("1")>>, <<K("projects"), List(<<SparseProject>>)>> >>)}

BadField(f, v) == WithProjects(List(<<Dict(<< <<f, v>> >>)>>))

\* Results that are not a well-typed {"projects": [...]}.
Malformed ==
    {PyNone, List(<<>>), List(<<FullProject>>), Dict(<<>>),
     Dict(<< <<K("items"), List(<<>>)>> >>),
     WithProjects(PyNone), WithProjects(Str(<<>>)), WithProjects(W("x")),
     WithProjects(Dict(<<>>)), WithProjects(FullProject),
     WithProjects(List(<<W("x")>>)), WithProjects(List(<<PyNone>>)),
     WithProjects(List(<<FullProject, List(<<>>)>>)),
     BadField(K("title"), PyNone), BadField(K("title"), List(<<>>)),
     BadField(K("url"), PyNone), BadField(K("content"), Dict(<<>>)),
     BadField(K("tags"), PyNone), BadField(K("tags"), W("t")),
     BadField(K("tags"), List(<<PyNone>>)), BadField(K("date"), List(<<>>)),
     WithProjects(List(<<FullProject, Dict(<< <<K("description"), PyNone>> >>)>>))}

Structured == WellFormed \cup Foreign \cup Malformed

\* Texts that are not the encoding of a structured result.
OtherTexts ==
    {Str(<<>>), W("oops"), Str(<<"{", "\"", "projects", "\"", ":">>),
     Str(<<"[", "]", "x">>), Str(Encode(W("x"))),
     Str(<<" ">> \o Encode(WithProjects(List(<<FullProject>>))) \o <<" ">>)}

AllResults == Structured \cup {Str(Encode(x)) : x \in Structured} \cup OtherTexts

FewStructured ==
    {WithProjects(List(<<ProjectOf({1, 6}), SparseProject>>)),
     BadField(K("title"), PyNone),
     Dict(<<>>)}

FewResults == FewStructured \cup {Str(Encode(x)) : x \in FewStructured} \cup {W("oops")}

\* str() of what the graph raises.
ExcMsgs == {<<>>, <<"boom">>}

----------------------------------------------------------------------------
\* The server: requests handled as coroutines on one event loop, each
\* opening its own worker pool for the extraction call.

Requests == {1, 2}
NoOne == 0

VARIABLES
    pc,       \* per request: absent, new, awaiting, running, ran, collected, failed, done
    query,    \* the urls query parameter as received
    urls,     \* the list after split
    pool,     \* the request's Pool: none, open, closed
    tasks,    \* the argument list handed to pool.starmap, one entry per task
    results,  \* the outcomes of the finished tasks, in task order
    calls,    \* the source lists the scraping graph was run with, in order
    failed,   \* the positions of the URLs whose extraction failed
    resp,     \* the response sent
    trace,    \* what the try body did (TryBody)
    holder,   \* the request whose synchronous call occupies the event loop
    overlap   \* the requests whose extraction was running when this one arrived

vars == <<pc, query, urls, pool, tasks, results, calls, failed, resp, trace,
          holder, overlap>>

\* One request alone is explored over all results, two interleaved
\* requests over a few.
Alone == \E r \in Requests : pc[r] = "absent"
ResultDomain == IF Alone THEN AllResults ELSE FewResults
QueryDomain == IF Alone THEN Queries ELSE FewQueries

InitWith(p) ==
    /\ pc = p
    /\ query = [r \in Requests |-> <<>>]
    /\ urls = [r \in Requests |-> <<>>]
    /\ pool = [r \in Requests |-> "none"]
    /\ tasks = [r \in Requests |-> <<>>]
    /\ results = [r \in Requests |-> <<>>]
    /\ calls = [r \in Requests |-> <<>>]
    /\ failed = [r \in Requests |-> {}]
    /\ resp = [r \in Requests |-> NoResponse]
    /\ trace = [r \in Requests |-> NoTrace]
    /\ holder = NoOne
    /\ overlap = [r \in Requests |-> {}]

Init ==
    \/ InitWith([r \in Requests |-> "new"])
    \/ InitWith([r \in Requests |-> IF r = 1 THEN "new" ELSE "absent"])

\* `if not urls`  (line 104)
NotUrls(l) == l = <<>>

\* The starmap argument list [(prompt, urls, graph_config)]  (line 138)
TaskPerUrl(l) == [i \in DOMAIN l |-> <<l[i]>>]

TaskArgs(l) == <<l>>

\* `async with Pool() as pool` on exit  (line 136)
LeavePoolOpen(p) == p

ExitPool(p) == "closed"

\* Who occupies the event loop while the graph runs: the handler awaits
\* pool.starmap and the worker awaits run_in_executor  (lines 97, 137)
BlockingCall(r) == r

DuringCall(r) == NoOne

\* An exception raised in a worker process does not cross the process
\* boundary as an object: pool.starmap raises the pool's own exception,
\* whose text is the worker's formatted traceback followed by the message.
Traceback(msg) == <<"Traceback (most recent call last):">> \o msg

\* A step of a handler coroutine runs when the event loop is free.
LoopFree == holder = NoOne

\* Lines 102-139 up to the first suspension: split, check, open the pool,
\* submit the task list.
Receive(r) ==
    /\ pc[r] = "new"
    /\ LoopFree
    /\ \E q \in QueryDomain :
        /\ query' = [query EXCEPT ![r] = q]
        /\ urls' = [urls EXCEPT ![r] = Split(q)]
        /\ overlap' = [overlap EXCEPT ![r] = {x \in Requests : pc[x] = "running"}]
        /\ IF NotUrls(Split(q))
           THEN /\ resp' = [resp EXCEPT ![r] = BadRequest]
                /\ pc' = [pc EXCEPT ![r] = "done"]
                /\ UNCHANGED <<pool, tasks>>
           ELSE /\ pool' = [pool EXCEPT ![r] = "open"]
                /\ tasks' = [tasks EXCEPT ![r] = TaskArgs(Split(q))]
                /\ pc' = [pc EXCEPT ![r] = "awaiting"]
                /\ UNCHANGED resp
    /\ UNCHANGED <<results, calls, failed, trace, holder>>

\* A worker picks the next task up: run_smart_scraper_graph builds the
\* graph over the task's source list and runs it  (lines 84-98).
WorkerStart(r) ==
    /\ pc[r] = "awaiting"
    /\ Len(results[r]) < Len(tasks[r])
    /\ LoopFree
    /\ calls' = [calls EXCEPT ![r] = Append(@, tasks[r][Len(results[r]) + 1])]
    /\ pc' = [pc EXCEPT ![r] = "running"]
    /\ holder' = DuringCall(r)
    /\ UNCHANGED <<query, urls, pool, tasks, results, failed, resp, trace, overlap>>

\* graph.run() returns a result, or raises, in which case F holds the
\* positions of the URLs whose extraction failed (none: the failure is
\* not tied to a URL).
WorkerEnd(r) ==
    /\ pc[r] = "running"
    /\ LET src == calls[r][Len(calls[r])]
           more == Len(results[r]) + 1 < Len(tasks[r])
       IN \/ \E res \in ResultDomain :
               /\ results' = [results EXCEPT ![r] = Append(@, Ok(res))]
               /\ UNCHANGED failed
          \/ \E F \in SUBSET (DOMAIN src), m \in ExcMsgs :
               /\ results' = [results EXCEPT ![r] =
                                Append(@, Raise("ProxyException", Traceback(m)))]
               /\ failed' = [failed EXCEPT ![r] = @ \cup F]
    /\ pc' = [pc EXCEPT ![r] =
                IF Len(results[r]) + 1 < Len(tasks[r]) THEN "awaiting" ELSE "ran"]
    /\ holder' = IF holder = r THEN NoOne ELSE holder
    /\ UNCHANGED <<query, urls, pool, tasks, calls, resp, trace, overlap>>

Raised(r) == \E i \in DOMAIN results[r] : ~results[r][i].ok

FirstRaised(r) ==
    results[r][CHOOSE i \in DOMAIN results[r] :
                  /\ ~results[r][i].ok
                  /\ \A j \in 1..(i - 1) : results[r][j].ok]

\* starmap hands the gathered results, or the first exception, to the
\* handler, which leaves the `async with` block  (lines 136-139).
PoolExit(r) ==
    /\ pc[r] = "ran"
    /\ LoopFree
    /\ pool' = [pool EXCEPT ![r] = ExitPool(@)]
    /\ pc' = [pc EXCEPT ![r] = IF Raised(r) THEN "failed" ELSE "collected"]
    /\ UNCHANGED <<query, urls, tasks, results, calls, failed, resp, trace,
                   holder, overlap>>

\* Lines 142-159, and lines 160-162 when one of them raises.
Finish(r) ==
    /\ pc[r] = "collected"
    /\ LoopFree
    /\ LET t == TryBody(results[r][1].v, urls[r])
       IN /\ trace' = [trace EXCEPT ![r] = t]
          /\ resp' = [resp EXCEPT ![r] = t.resp]
    /\ pc' = [pc EXCEPT ![r] = "done"]
    /\ UNCHANGED <<query, urls, pool, tasks, results, calls, failed, holder, overlap>>

\* Lines 160-162 for an exception of the pooled call.
FailRequest(r) ==
    /\ pc[r] = "failed"
    /\ LoopFree
    /\ resp' = [resp EXCEPT ![r] = HandleException(FirstRaised(r))]
    /\ pc' = [pc EXCEPT ![r] = "done"]
    /\ UNCHANGED <<query, urls, pool, tasks, results, calls, failed, trace,
                   holder, overlap>>

Next ==
    \E r \in Requests :
        \/ Receive(r)
        \/ WorkerStart(r)
        \/ WorkerEnd(r)
        \/ PoolExit(r)
        \/ Finish(r)
        \/ FailRequest(r)

Spec == Init /\ [][Next]_vars

----------------------------------------------------------------------------
\* Properties

Done(r) == pc[r] = "done"
Arrived(r) == pc[r] \notin {"absent", "new"}
Checked(r) == Arrived(r) /\ ~(urls[r] = <<>>)
Returned(r) == results[r] # <<>> /\ results[r][1].ok
Raw(r) == results[r][1].v
Body(r) == resp[r].body
ProjectsOf(v) == Get(v, K("projects"), PyNone)

IsErrorBody(b) == IsDict(b) /\ Keys(b) = <<K("error")>> /\ IsStr(Get(b, K("error"), PyNone))

\* The empty value of a field's type.
EmptyOf(f) == IF f = K("tags") THEN List(<<>>) ELSE Str(<<>>)

\* C1: a request whose urls parameter is the empty string is answered 400
\* and the scraping graph is never run for it.
C1_EmptyQueryRejected ==
    \A r \in Requests :
        Arrived(r) /\ query[r] = <<>> =>
            /\ calls[r] = <<>>
            /\ Done(r) => resp[r].status = 400

\* C2: when the pooled extraction call raises, the response is 500 with
\* body {"error": m}, m a non-empty string, and holds no projects list.
C2_ExtractionFailureIs500 ==
    \A r \in Requests :
        Done(r) /\ Checked(r) /\ Raised(r) =>
            /\ resp[r].status = 500
            /\ IsErrorBody(Body(r))
            /\ Get(Body(r), K("error"), PyNone).s # <<>>
            /\ ~HasKey(Body(r), K("projects"))

C2_Witness ==
    \E r \in Requests :
        /\ Done(r) /\ Checked(r) /\ Raised(r)
        /\ results[r][1].msg = Traceback(<<>>)
        /\ resp[r].status = 500

\* C3: a result {"projects": [p1..pn]} whose records hold any subset of the
\* seven keys, correctly typed, is answered 200 with n projects that have
\* all seven fields, typed, the omitted ones empty.
C3_WellFormedIs200 ==
    \A r \in Requests :
        Done(r) /\ Returned(r) /\ Raw(r) \in WellFormed =>
            LET in == ProjectsOf(Raw(r)).l
                out == ProjectsOf(Body(r))
            IN /\ resp[r].status = 200
               /\ IsDict(Body(r)) /\ Keys(Body(r)) = <<K("projects")>>
               /\ IsList(out) /\ Len(out.l) = Len(in)
               /\ \A i \in DOMAIN in :
                     /\ IsDict(out.l[i]) /\ Keys(out.l[i]) = Fields
                     /\ \A j \in DOMAIN Fields :
                           LET f == Fields[j]
                               v == Get(out.l[i], f, PyNone)
                           IN /\ IF f = K("tags")
                                 THEN IsList(v) /\ \A k \in DOMAIN v.l : IsStr(v.l[k])
                                 ELSE IF f \in {K("date"), K("author")}
                                 THEN IsStr(v) \/ v = PyNone
                                 ELSE IsStr(v)
                              /\ ~HasKey(in[i], f) => v = EmptyOf(f)

C3_Witness ==
    \E r \in Requests :
        /\ Done(r) /\ Returned(r)
        /\ Raw(r) = WithProjects(List(<<ProjectOf({}), ProjectOf({3, 6})>>))
        /\ resp[r].status = 200

\* C4: with several URLs, the failure of one URL leaves the response at 200
\* with the projects of the other URLs and none of the failed one.
C4_OneFailureKeepsOthers ==
    \A r \in Requests :
        Done(r) /\ Len(urls[r]) >= 2 /\ Cardinality(failed[r]) = 1 =>
            /\ resp[r].status = 200
            /\ IsDict(Body(r)) /\ HasKey(Body(r), K("projects"))
            /\ LET ps == ProjectsOf(Body(r))
               IN /\ IsList(ps)
                  /\ \A i \in DOMAIN ps.l :
                        \E u \in DOMAIN urls[r] :
                            /\ u \notin failed[r]
                            /\ Get(ps.l[i], K("url"), PyNone) = Str(urls[r][u])
                  /\ \A u \in DOMAIN urls[r] \ failed[r] :
                        \E i \in DOMAIN ps.l :
                            Get(ps.l[i], K("url"), PyNone) = Str(urls[r][u])


\* What the try body normalizes: the result itself, or its parse.
Loaded(raw) == IF IsStr(raw) THEN JsonLoads(raw.s) ELSE Ok(raw)

\* A string that is not JSON, a result that is no mapping or has no
\* projects key, a project that is no record, a present field of the wrong
\* type or null where a string is required.
Defective(raw) ==
    LET ld == Loaded(raw) IN
    \/ ~ld.ok
    \/ ~IsDict(ld.v)
    \/ ~HasKey(ld.v, K("projects"))
    \/ LET ps == ProjectsOf(ld.v) IN
       /\ IsList(ps)
       /\ \E i \in DOMAIN ps.l :
             \/ ~IsDict(ps.l[i])
             \/ \E j \in DOMAIN Fields :
                   /\ HasKey(ps.l[i], Fields[j])
                   /\ ~FieldOk(Fields[j], Get(ps.l[i], Fields[j], PyNone))

\* C5: past the URL check a request is answered either 200 with
\* {"projects": [...]} of validated projects or 500 with {"error": message};
\* every failure after the check gives the 500 answer.
C5_TwoOutcomes ==
    \A r \in Requests :
        Done(r) /\ Checked(r) =>
            /\ \/ /\ resp[r].status = 200
                  /\ IsDict(Body(r)) /\ Keys(Body(r)) = <<K("projects")>>
                  /\ IsList(ProjectsOf(Body(r)))
                  /\ \A i \in DOMAIN ProjectsOf(Body(r)).l :
                        ProjectOk(ProjectsOf(Body(r)).l[i])
               \/ /\ resp[r].status = 500
                  /\ IsErrorBody(Body(r))
            /\ (Raised(r) \/ (Returned(r) /\ Defective(Raw(r)))) =>
                  resp[r].status = 500 /\ IsErrorBody(Body(r))

C5_Witness ==
    \E r \in Requests :
        /\ Done(r) /\ Checked(r) /\ Returned(r)
        /\ Raw(r) = Dict(<< <<K("items"), List(<<>>)>> >>)
        /\ resp[r].status = 500

\* C6: while the extraction call of one request runs, nothing occupies the
\* event loop and every step of another request that is due can be taken.
C6_HandlerNonBlocking ==
    \A r1 \in Requests :
        pc[r1] = "running" =>
            /\ holder # r1
            /\ \A r2 \in Requests \ {r1} :
                  pc[r2] \in {"new", "awaiting", "ran", "collected", "failed"} => LoopFree

\* A request arrived while another's extraction was running and was
\* answered before that extraction returned.
C6_Witness ==
    \E r1, r2 \in Requests :
        /\ r1 # r2
        /\ pc[r1] = "running"
        /\ r1 \in overlap[r2]
        /\ Done(r2) /\ Len(calls[r2]) = 1

\* C7: the scraping graph is run exactly once per request, with the full
\* list of the request's URLs, and not again after a failure.
C7_NoRetry ==
    \A r \in Requests :
        /\ Len(calls[r]) <= 1
        /\ pc[r] \in {"running", "ran", "collected", "failed"} \/ (Done(r) /\ Checked(r)) =>
              calls[r] = <<Split(query[r])>>

C7_Witness ==
    \E r \in Requests :
        /\ Done(r) /\ Raised(r)
        /\ Len(urls[r]) >= 2
        /\ calls[r] = <<urls[r]>>
        /\ resp[r].status = 500

\* C8: preprocess_result leaves its argument as it was and returns a new
\* projects list of the same length and order, each record holding exactly
\* the seven fields, a present field with the input's value (null
\* included), an absent one with the default; the urls play no part.
C8_PreprocessPure ==
    \A r \in Requests :
        LET in == trace[r].input IN
        (/\ Done(r) /\ IsDict(in) /\ HasKey(in, K("projects"))
         /\ IsList(ProjectsOf(in))
         /\ \A i \in DOMAIN ProjectsOf(in).l : IsDict(ProjectsOf(in).l[i])) =>
            LET ps == ProjectsOf(in).l
                out == trace[r].pre
            IN /\ trace[r].after = in
               /\ Loaded(Raw(r)) = Ok(in)
               /\ IsDict(out) /\ Keys(out) = <<K("projects")>>
               /\ IsList(ProjectsOf(out)) /\ Len(ProjectsOf(out).l) = Len(ps)
               /\ \A i \in DOMAIN ps :
                     LET o == ProjectsOf(out).l[i] IN
                     /\ IsDict(o) /\ Keys(o) = Fields
                     /\ \A j \in DOMAIN Fields :
                           Get(o, Fields[j], PyNone) =
                               IF HasKey(ps[i], Fields[j])
                               THEN Get(ps[i], Fields[j], PyNone)
                               ELSE EmptyOf(Fields[j])
               /\ \A r2 \in Requests :
                     Done(r2) /\ trace[r2].input = in => trace[r2].pre = out

C8_Witness ==
    \E r \in Requests :
        /\ Done(r) /\ Returned(r)
        /\ Raw(r) = WithProjects(List(<<FullProject, SparseProject>>))
        /\ trace[r].after = Raw(r)
        /\ resp[r].status = 200

\* C9: a request whose extraction returns the JSON text of r is answered as
\* a request whose extraction returns r; a string result is parsed once, any
\* other result never.
C9_FormIndependent ==
    \A r \in Requests :
        Done(r) /\ Returned(r) =>
            /\ trace[r].parses = IF IsStr(Raw(r)) THEN 1 ELSE 0
            /\ ~IsStr(Raw(r)) =>
                  LET text == TryBody(Str(Encode(Raw(r))), urls[r])
                  IN text.resp = resp[r] /\ text.parses = 1
            /\ \A r2 \in Requests :
                  (/\ Done(r2) /\ Returned(r2)
                   /\ ~IsStr(Raw(r))
                   /\ Raw(r2) = Str(Encode(Raw(r)))) => resp[r2] = resp[r]

C9_Witness ==
    \E r, r2 \in Requests :
        /\ Done(r) /\ Returned(r) /\ Done(r2) /\ Returned(r2)
        /\ Raw(r) = WithProjects(List(<<ProjectOf({1, 6}), SparseProject>>))
        /\ Raw(r2) = Str(Encode(Raw(r)))
        /\ trace[r2].parses = 1 /\ trace[r].parses = 0
        /\ resp[r].status = 200

\* C10: the pool a request opened is closed before its result is processed
\* and before its response is built, so no answered request holds an open
\* pool.
C10_PoolClosed ==
    /\ \A r \in Requests :
          /\ pc[r] \in {"collected", "failed", "done"} => pool[r] # "open"
          /\ resp[r] # NoResponse => pool[r] # "open"
    /\ (\A r \in Requests : pc[r] \in {"done", "absent"}) =>
          \A r \in Requests : pool[r] # "open"

C10_Witness ==
    \E r1, r2 \in Requests :
        /\ r1 # r2 /\ Done(r1) /\ Done(r2)
        /\ Raised(r1) /\ Returned(r2)
        /\ r1 \in overlap[r2]
        /\ pool[r1] = "closed" /\ pool[r2] = "closed"

====
